---- MODULE Spec2Model ----
(***************************************************************************)
(* A state-machine model of three stress-ng stressors and the per-worker   *)
(* run state they share:                                                   *)
(*    stress_cap       (src/stress-cap.c)                                  *)
(*    stress_context   (src/stress-context.c)                              *)
(*    stress_watchdog  (src/stress-watchdog.c)                             *)
(* Every worker is one process: it owns its keep-stressing flag, its bogo  *)
(* counter, its run state and its descriptor table.  The only object the   *)
(* workers share is the watchdog device, which one process may hold open   *)
(* at a time.                                                              *)
(***************************************************************************)
EXTENDS Integers, Naturals, Sequences, FiniteSets, TLC

(***************************************************************************)
(* Bounds of the model.                                                    *)
(***************************************************************************)
\* largest small ceiling (args->max_ops) a worker is started with
MaxOps == 2
\* number of stress_watchdog instances that contend for the device
NumInstances == 3
\* largest number of numeric /proc entries readdir() returns to stress_cap
MaxProcEntries == 2

(***************************************************************************)
(* Program constants.                                                      *)
(***************************************************************************)
\* #define STRESS_CONTEXTS (3)
STRESS_CONTEXTS == 3
\* stress_max_ops = args->max_ops * 1000; set_counter(args, context_counter / 1000)
OPS_SCALE == 1000
\* the descriptor open(dev_watchdog, O_RDWR) returns: the lowest free one of
\* a worker whose descriptors 0, 1 and 2 are open
DEV_FD == 3


(***************************************************************************)
(* uint64_t values that do not fit a model integer are kept as four 16-bit *)
(* limbs, least significant first; arithmetic is modulo 2^64.              *)
(***************************************************************************)
LIMB == 2 ^ 16

U64FromNat(n) == << n % LIMB, (n \div LIMB) % LIMB, 0, 0 >>

U64IsZero(a) == a = << 0, 0, 0, 0 >>

\* a * k modulo 2^64, for a small multiplier k: the carry out of the top
\* limb is dropped, as the uint64_t multiplication drops it
U64MulSmall(a, k) ==
    LET t1 == a[1] * k
        t2 == a[2] * k + (t1 \div LIMB)
        t3 == a[3] * k + (t2 \div LIMB)
        t4 == a[4] * k + (t3 \div LIMB)
    IN  << t1 % LIMB, t2 % LIMB, t3 % LIMB, t4 % LIMB >>

\* a fits a model integer
U64Small(a) == a[3] = 0 /\ a[4] = 0 /\ a[2] < 16384

U64ToNat(a) == a[1] + LIMB * a[2]

\* n < a, n = a for a small natural n and a uint64_t a
U64NatLt(n, a) == IF U64Small(a) THEN n < U64ToNat(a) ELSE TRUE
U64NatEq(n, a) == U64Small(a) /\ n = U64ToNat(a)
U64NatLe(n, a) == U64NatLt(n, a) \/ U64NatEq(n, a)

\* 2^61 and 2^61 + 1: ceilings whose product with 1000 wraps
BIG_OPS == << 0, 0, 0, 8192 >>
BIG_OPS1 == << 1, 0, 0, 8192 >>

\* 2066035336255469781, the inverse of 125 modulo 2^61: a ceiling whose
\* product with 1000 wraps to 8
SHORT_OPS == << 30933, 9961, 2097, 7340 >>

MaxOpsValues == { U64FromNat(n) : n \in 0 .. MaxOps } \cup { BIG_OPS, BIG_OPS1 }

\* A counter that no ceiling stops is followed up to this value and then
\* held: every ceiling of the model that is not above it has been passed.
CounterCap == MaxOps + 1
Sat(n, cap) == IF n < cap THEN n + 1 ELSE cap

VARIABLES
    kind,               \* the stressor a worker runs ("none": not started)
    max_ops,            \* args->max_ops
    pc,                 \* the statement the worker is at
    flag,               \* the process-local keep-stressing flag
    counter,            \* the bogo-op counter of the worker's metrics slot
    state,              \* the run state stress_set_proc_state() last set
    rc,                 \* the local rc of stress_watchdog / stress_context
    outcome,            \* the value the stressor returned ("none" before)
    dir,                \* stress_cap: entries readdir() has yet to return
    context_counter,    \* stress-context.c: static uint64_t context_counter
    stress_max_ops,     \* stress-context.c: static uint64_t stress_max_ops
    cur,                \* stress_context: running context (0: uctx_main)
    tpos,               \* stress_context: where each context[i] is saved
    canary,             \* stress_context: the canaries that were clobbered
    fd,                 \* stress-watchdog.c: static int fd
    ret,                \* stress_watchdog: int ret
    jmp_env,            \* stress-watchdog.c: "unset", "set" (by sigsetjmp)
    handlers,           \* stress_watchdog_handler is installed
    fds,                \* the descriptors open in the worker's process
    devHolder,          \* the worker holding /dev/watchdog open (0: none)
    extBusy,            \* /dev/watchdog is held by a process outside the run
    hist                \* history of the run, read by the properties only

\* the workers of the run, and the largest set of them
Workers == DOMAIN kind
WorkerIds == 1 .. 4

runVars == << kind, max_ops, flag, counter, state, rc, outcome >>
capVars == << dir >>
ctxVars == << context_counter, stress_max_ops, cur, tpos, canary >>
wdVars  == << fd, ret, jmp_env, handlers, fds, devHolder, extBusy >>
vars == << pc, runVars, capVars, ctxVars, wdVars, hist >>

Contexts == 1 .. STRESS_CONTEXTS
CanaryChecks == Contexts \X { "check0", "check1" }
\* what a run may find of its canaries: all intact, or one of them clobbered
ClobberSets == { {} } \cup { { c } : c \in CanaryChecks }

(***************************************************************************)
(* The run-state controller (core of stress-ng, not part of src/).         *)
(***************************************************************************)
\* keep_stressing_flag()
keep_stressing_flag(w) == flag[w]

\* keep_stressing(args): flag AND (ceiling == 0 OR counter < ceiling)
keep_stressing(w) ==
    keep_stressing_flag(w)
        /\ (U64IsZero(max_ops[w]) \/ U64NatLt(counter[w], max_ops[w]))

\* inc_counter(args)
inc_counter(w) == counter' = [counter EXCEPT ![w] = Sat(@, CounterCap)]

\* set_counter(args, v)
set_counter(w, v) == counter' = [counter EXCEPT ![w] = v]

\* stress_set_proc_state(args->name, s)
stress_set_proc_state(w, s) == state' = [state EXCEPT ![w] = s]

(***************************************************************************)
(* History: what the properties need to know of the past of a run.         *)
(***************************************************************************)
HistInit ==
    [ runs      |-> 0,       \* times the state was set to RUN
      deinits   |-> 0,       \* times the state was set to DEINIT
      unitPred  |-> TRUE,    \* keep-running predicate when the unit started
      stopIncs  |-> 0,       \* increments made with the flag already false
      pr_fail   |-> FALSE,   \* pr_fail() was called
      noDevice  |-> FALSE,   \* access() found the device missing or closed to us
      wres      |-> "none",  \* result of the handler's last write of "V"
      wac       |-> FALSE,   \* "V" was written to the closed device descriptor
      magic     |-> FALSE,   \* "V" was written to the open device descriptor,
                             \* and no ioctl was made on it since
      devCloses |-> 0,       \* close() calls on the device descriptor since open()
      caught    |-> FALSE,   \* the handler ran with a valid resume point
      badJump   |-> FALSE    \* siglongjmp ran without a valid resume point
    ]

Bump(n) == IF n < 3 THEN n + 1 ELSE n

\* the state is set to s
HistState(h, s) ==
    IF s = "RUN" THEN [h EXCEPT !.runs = Bump(@)]
    ELSE IF s = "DEINIT" THEN [h EXCEPT !.deinits = Bump(@)]
    ELSE h

\* a unit of work is started in a state where the predicate is p
HistUnit(h, p) == [h EXCEPT !.unitPred = p]

\* the counter (context_counter) is incremented while the flag is f
HistInc(h, f) == IF f THEN h ELSE [h EXCEPT !.stopIncs = Bump(@)]

\* worker w of the run runs stressor k
Runs(w, k) == w \in Workers /\ kind[w] = k

Live(w) == w \in Workers /\ pc[w] \notin { "returned", "crashed" }

(***************************************************************************)
(* stress_cap                                                              *)
(***************************************************************************)
CapNext(p) ==
    CASE p = "c_unit1" -> "c_chk1"
      [] p = "c_unit2" -> "c_chk2"
      [] p = "c_unit3" -> "c_chk3"
      [] p = "c_unit4" -> "c_chk4"
      [] p = "c_chk1"  -> "c_unit2"
      [] p = "c_chk2"  -> "c_unit3"
      [] p = "c_chk3"  -> "c_opendir"
      [] p = "c_chk4"  -> "c_readdir"

\* where a failed "if (!keep_stressing(args)) break;" leaves to
CapBreak(p) == IF p = "c_chk4" THEN "c_closedir" ELSE "c_deinit"

\* stress_set_proc_state(args->name, STRESS_STATE_RUN); do {
cap_set_run(w) ==
    /\ Runs(w, "cap") /\ pc[w] = "c_run"
    /\ stress_set_proc_state(w, "RUN")
    /\ pc' = [pc EXCEPT ![w] = "c_unit1"]
    /\ hist' = [hist EXCEPT ![w] = HistUnit(HistState(@, "RUN"), keep_stressing(w))]
    /\ UNCHANGED << kind, max_ops, flag, counter, rc, outcome, capVars, ctxVars, wdVars >>

\* stress_capgetset_pid counting the capget and the capset separately:
\* inc_counter(args) twice
stress_capgetset_pid_counts_twice(w) ==
    /\ Runs(w, "cap")
    /\ pc[w] \in { "c_unit1", "c_unit2", "c_unit3", "c_unit4" }
    /\ set_counter(w, Sat(Sat(counter[w], CounterCap), CounterCap))
    /\ pc' = [pc EXCEPT ![w] = CapNext(pc[w])]
    /\ hist' = [hist EXCEPT ![w] = HistInc(@, flag[w])]
    /\ UNCHANGED << kind, max_ops, flag, state, rc, outcome, capVars, ctxVars, wdVars >>

\* stress_capgetset_pid(args, pid, do_set, exists): the capget/capset calls
\* change nothing of the worker; it ends with inc_counter(args)
stress_capgetset_pid(w) ==
    /\ Runs(w, "cap")
    /\ pc[w] \in { "c_unit1", "c_unit2", "c_unit3", "c_unit4" }
    /\ inc_counter(w)
    /\ pc' = [pc EXCEPT ![w] = CapNext(pc[w])]
    /\ hist' = [hist EXCEPT ![w] = HistInc(@, flag[w])]
    /\ UNCHANGED << kind, max_ops, flag, state, rc, outcome, capVars, ctxVars, wdVars >>

\* if (!keep_stressing(args)) break;
cap_keep_check(w) ==
    /\ Runs(w, "cap")
    /\ pc[w] \in { "c_chk1", "c_chk2", "c_chk3", "c_chk4" }
    /\ pc' = [pc EXCEPT ![w] = IF keep_stressing(w) THEN CapNext(pc[w])
                                ELSE CapBreak(pc[w])]
    /\ hist' = [hist EXCEPT ![w] =
                   IF keep_stressing(w) THEN HistUnit(@, TRUE) ELSE @]
    /\ UNCHANGED << runVars, capVars, ctxVars, wdVars >>

\* dir = opendir("/proc"); if (dir) {
cap_opendir(w) ==
    /\ Runs(w, "cap") /\ pc[w] = "c_opendir"
    /\ \/ \E n \in 0 .. MaxProcEntries :
             /\ dir' = [dir EXCEPT ![w] = n]
             /\ pc' = [pc EXCEPT ![w] = "c_readdir"]
       \/ /\ pc' = [pc EXCEPT ![w] = "c_while"]
          /\ UNCHANGED dir
    /\ UNCHANGED << runVars, ctxVars, wdVars, hist >>

\* while ((d = readdir(dir)) != NULL) { if (!isdigit(...)) continue; ...
\* an entry that is no pid is skipped; a pid is the next unit, guarded by
\* the check that let the worker come here
cap_readdir(w) ==
    /\ Runs(w, "cap") /\ pc[w] = "c_readdir"
    /\ IF dir[w] = 0
       THEN /\ pc' = [pc EXCEPT ![w] = "c_closedir"]
            /\ UNCHANGED dir
       ELSE /\ dir' = [dir EXCEPT ![w] = @ - 1]
            /\ \E p \in { "c_unit4", "c_readdir" } : pc' = [pc EXCEPT ![w] = p]
    /\ UNCHANGED << runVars, ctxVars, wdVars, hist >>

\* (void)closedir(dir); }
cap_closedir(w) ==
    /\ Runs(w, "cap") /\ pc[w] = "c_closedir"
    /\ dir' = [dir EXCEPT ![w] = 0]
    /\ pc' = [pc EXCEPT ![w] = "c_while"]
    /\ UNCHANGED << runVars, ctxVars, wdVars, hist >>

\* } while (keep_stressing(args));
cap_while(w) ==
    /\ Runs(w, "cap") /\ pc[w] = "c_while"
    /\ IF keep_stressing(w)
       THEN /\ pc' = [pc EXCEPT ![w] = "c_unit1"]
            /\ hist' = [hist EXCEPT ![w] = HistUnit(@, TRUE)]
       ELSE /\ pc' = [pc EXCEPT ![w] = "c_deinit"]
            /\ UNCHANGED hist
    /\ UNCHANGED << runVars, capVars, ctxVars, wdVars >>

\* stress_set_proc_state(args->name, STRESS_STATE_DEINIT);
cap_deinit(w) ==
    /\ Runs(w, "cap") /\ pc[w] = "c_deinit"
    /\ stress_set_proc_state(w, "DEINIT")
    /\ pc' = [pc EXCEPT ![w] = "c_return"]
    /\ hist' = [hist EXCEPT ![w] = HistState(@, "DEINIT")]
    /\ UNCHANGED << kind, max_ops, flag, counter, rc, outcome, capVars, ctxVars, wdVars >>

\* return EXIT_SUCCESS;
cap_return(w) ==
    /\ Runs(w, "cap") /\ pc[w] = "c_return"
    /\ outcome' = [outcome EXCEPT ![w] = "SUCCESS"]
    /\ pc' = [pc EXCEPT ![w] = "returned"]
    /\ UNCHANGED << kind, max_ops, flag, counter, state, rc, capVars, ctxVars, wdVars, hist >>

stress_cap(w) ==
    \/ cap_set_run(w)
    \/ stress_capgetset_pid(w)
    \/ cap_keep_check(w)
    \/ cap_opendir(w)
    \/ cap_readdir(w)
    \/ cap_closedir(w)
    \/ cap_while(w)
    \/ cap_deinit(w)
    \/ cap_return(w)

(***************************************************************************)
(* stress_context                                                          *)
(***************************************************************************)
\* the contexts linked the other way round: context[2] <- context[0] <-
\* context[1] <- context[2]
NextContextReversed(i) == IF i = 1 THEN STRESS_CONTEXTS ELSE i - 1

\* the context the loop of context i swaps to: context[0] -> context[1] ->
\* context[2] -> context[0]
NextContext(i) == (i % STRESS_CONTEXTS) + 1

\* keep_stressing_flag() && (!stress_max_ops || (context_counter < stress_max_ops))
ContextKeep(w) ==
    keep_stressing_flag(w)
        /\ (U64IsZero(stress_max_ops[w])
               \/ U64NatLt(context_counter[w], stress_max_ops[w]))

\* context = mmap(...); if (context == MAP_FAILED) return EXIT_NO_RESOURCE;
context_mmap(w) ==
    /\ Runs(w, "context") /\ pc[w] = "x_mmap"
    /\ \/ /\ pc' = [pc EXCEPT ![w] = "x_init"]
          /\ UNCHANGED outcome
       \/ /\ pc' = [pc EXCEPT ![w] = "returned"]
          /\ outcome' = [outcome EXCEPT ![w] = "NO_RESOURCE"]
    /\ UNCHANGED << kind, max_ops, flag, counter, state, rc,
                    capVars, ctxVars, wdVars, hist >>

\* context_counter = 0; stress_max_ops = args->max_ops * 1000;
\* for (i = 0; i < STRESS_CONTEXTS; i++)
\*     if (stress_context_init(...) < 0) goto fail;
\* stress_context_init fails when getcontext() fails, and else records the
\* canaries and makes the context
context_init(w) ==
    /\ Runs(w, "context") /\ pc[w] = "x_init"
    /\ context_counter' = [context_counter EXCEPT ![w] = 0]
    /\ stress_max_ops' = [stress_max_ops EXCEPT ![w] = U64MulSmall(max_ops[w], OPS_SCALE)]
    /\ \/ /\ tpos' = [tpos EXCEPT ![w] = [i \in Contexts |-> "fresh"]]
          /\ pc' = [pc EXCEPT ![w] = "x_run"]
       \/ \E n \in Contexts :
             /\ tpos' = [tpos EXCEPT ![w] =
                            [i \in Contexts |-> IF i < n THEN "fresh" ELSE "unmade"]]
             /\ pc' = [pc EXCEPT ![w] = "x_fail"]
    /\ UNCHANGED << runVars, capVars, cur, canary, wdVars, hist >>

\* stress_set_proc_state(args->name, STRESS_STATE_RUN);
context_set_run(w) ==
    /\ Runs(w, "context") /\ pc[w] = "x_run"
    /\ stress_set_proc_state(w, "RUN")
    /\ pc' = [pc EXCEPT ![w] = "x_swap"]
    /\ hist' = [hist EXCEPT ![w] = HistState(@, "RUN")]
    /\ UNCHANGED << kind, max_ops, flag, counter, rc, outcome,
                    capVars, ctxVars, wdVars >>

\* if (swapcontext(&uctx_main, &context[0].d.cu.uctx) < 0) goto fail;
\* on success stress_thread1 starts its first unit
context_start(w) ==
    /\ Runs(w, "context") /\ pc[w] = "x_swap"
    /\ \/ /\ cur' = [cur EXCEPT ![w] = 1]
          /\ pc' = [pc EXCEPT ![w] = "t_body"]
          /\ hist' = [hist EXCEPT ![w] = HistUnit(@, ContextKeep(w))]
       \/ /\ pc' = [pc EXCEPT ![w] = "x_fail"]
          /\ UNCHANGED << cur, hist >>
    /\ UNCHANGED << runVars, capVars, context_counter, stress_max_ops, tpos,
                    canary, wdVars >>

\* the context_counter after context_counter++, followed up to just past
\* the largest small ceiling and the first round of the contexts
ContextCap == MaxOps * OPS_SCALE + STRESS_CONTEXTS + 1
ContextInc(n) == Sat(n, ContextCap)

\* stress_thread1/2/3: do { duration += ...; context_counter++; t = now;
\*     (void)swapcontext(&context[i], &context[i + 1]);
\* the next context starts its function when it was never run, and else
\* returns from its own swapcontext to the loop condition
stress_thread_body(w) ==
    /\ Runs(w, "context") /\ pc[w] = "t_body"
    /\ LET i == cur[w]
           j == NextContext(i)
           n == ContextInc(context_counter[w])
           keep == keep_stressing_flag(w)
                      /\ (U64IsZero(stress_max_ops[w]) \/ U64NatLt(n, stress_max_ops[w]))
       IN  /\ context_counter' = [context_counter EXCEPT ![w] = n]
           /\ tpos' = [tpos EXCEPT ![w][i] = "inloop"]
           /\ cur' = [cur EXCEPT ![w] = j]
           /\ IF tpos[w][j] = "fresh"
              THEN /\ pc' = [pc EXCEPT ![w] = "t_body"]
                   /\ hist' = [hist EXCEPT ![w] = HistUnit(HistInc(@, flag[w]), keep)]
              ELSE /\ pc' = [pc EXCEPT ![w] = "t_check"]
                   /\ hist' = [hist EXCEPT ![w] = HistInc(@, flag[w])]
    /\ UNCHANGED << runVars, capVars, stress_max_ops, canary, wdVars >>

\* } while (keep_stressing_flag() &&
\*          (!stress_max_ops || (context_counter < stress_max_ops)));
stress_thread_while(w) ==
    /\ Runs(w, "context") /\ pc[w] = "t_check"
    /\ IF ContextKeep(w)
       THEN /\ pc' = [pc EXCEPT ![w] = "t_body"]
            /\ hist' = [hist EXCEPT ![w] = HistUnit(@, TRUE)]
       ELSE /\ pc' = [pc EXCEPT ![w] = "t_exit"]
            /\ UNCHANGED hist
    /\ UNCHANGED << runVars, capVars, ctxVars, wdVars >>

\* (void)swapcontext(&context[i].d.cu.uctx, &uctx_main);
\* control is back in stress_context, after its swapcontext
stress_thread_exit(w) ==
    /\ Runs(w, "context") /\ pc[w] = "t_exit"
    /\ tpos' = [tpos EXCEPT ![w][cur[w]] = "exited"]
    /\ cur' = [cur EXCEPT ![w] = 0]
    /\ pc' = [pc EXCEPT ![w] = "x_setcounter"]
    /\ UNCHANGED << runVars, capVars, context_counter, stress_max_ops, canary,
                    wdVars, hist >>

\* set_counter(args, context_counter / 1000);
context_set_counter(w) ==
    /\ Runs(w, "context") /\ pc[w] = "x_setcounter"
    /\ set_counter(w, context_counter[w] \div OPS_SCALE)
    /\ pc' = [pc EXCEPT ![w] = "x_canary"]
    /\ UNCHANGED << kind, max_ops, flag, state, rc, outcome,
                    capVars, ctxVars, wdVars, hist >>

\* for (i = 0; i < STRESS_CONTEXTS; i++) { if (canary.check0 != cu.check0)
\*     pr_fail(...); if (canary.check1 != cu.check1) pr_fail(...); }
\* The canaries are read here for the first time since they were recorded:
\* what the context switches of the run did to them shows at this read.
\* A mismatch is reported and changes nothing else.
context_check_canaries(w) ==
    /\ Runs(w, "context") /\ pc[w] = "x_canary"
    /\ \E c \in ClobberSets :
          /\ canary' = [canary EXCEPT ![w] = c]
          /\ hist' = [hist EXCEPT ![w].pr_fail = @ \/ (c # {})]
    /\ pc' = [pc EXCEPT ![w] = "x_deinit"]
    /\ UNCHANGED << runVars, capVars, context_counter, stress_max_ops, cur,
                    tpos, wdVars >>

\* stress_set_proc_state(args->name, STRESS_STATE_DEINIT);
\* stress_metrics_set(...); rc = EXIT_SUCCESS;
context_deinit(w) ==
    /\ Runs(w, "context") /\ pc[w] = "x_deinit"
    /\ stress_set_proc_state(w, "DEINIT")
    /\ rc' = [rc EXCEPT ![w] = "SUCCESS"]
    /\ pc' = [pc EXCEPT ![w] = "x_fail"]
    /\ hist' = [hist EXCEPT ![w] = HistState(@, "DEINIT")]
    /\ UNCHANGED << kind, max_ops, flag, counter, outcome, capVars, ctxVars, wdVars >>

\* fail: (void)munmap(...); return rc;
context_return(w) ==
    /\ Runs(w, "context") /\ pc[w] = "x_fail"
    /\ outcome' = [outcome EXCEPT ![w] = rc[w]]
    /\ pc' = [pc EXCEPT ![w] = "returned"]
    /\ UNCHANGED << kind, max_ops, flag, counter, state, rc,
                    capVars, ctxVars, wdVars, hist >>

stress_context(w) ==
    \/ context_mmap(w)
    \/ context_init(w)
    \/ context_set_run(w)
    \/ context_start(w)
    \/ stress_thread_body(w)
    \/ stress_thread_while(w)
    \/ stress_thread_exit(w)
    \/ context_set_counter(w)
    \/ context_check_canaries(w)
    \/ context_deinit(w)
    \/ context_return(w)

(***************************************************************************)
(* stress_watchdog                                                         *)
(***************************************************************************)
\* write(fd, "V", 1) by a worker whose history is h; the result of the
\* write is dropped (VOID_RET)
WriteV(w, h) ==
    [h EXCEPT !.wac = @ \/ (fd[w] = DEV_FD /\ DEV_FD \notin fds[w]),
              !.magic = @ \/ (fd[w] = DEV_FD /\ DEV_FD \in fds[w])]

\* stress_watchdog_magic_close(): if (fd >= 0) write(fd, "V", 1);
stress_watchdog_magic_close(w, h) ==
    IF fd[w] >= 0 THEN WriteV(w, h) ELSE h

\* the results write(fd, "V", 1) can have: it fails on a descriptor that is
\* not open, and may fail on one that is
WriteResults(w) ==
    IF fd[w] < 0 THEN { "none" }
    ELSE IF fd[w] \in fds[w] THEN { "ok", "fail" } ELSE { "fail" }

\* close(fd) by a worker whose history is h
HistClose(w, h) ==
    IF fd[w] = DEV_FD THEN [h EXCEPT !.devCloses = Bump(@)] ELSE h

\* the descriptor table and the device after close(fd): the descriptor is
\* released whatever close() returns
CloseFd(w) ==
    /\ fds' = [fds EXCEPT ![w] = @ \ { fd[w] }]
    /\ devHolder' = IF fd[w] = DEV_FD /\ DEV_FD \in fds[w] /\ devHolder = w
                    THEN 0 ELSE devHolder

\* fd = -1; for (i = 0; i < SIZEOF_ARRAY(sigs); i++)
\*     if (stress_sighandler(..., stress_watchdog_handler, NULL) < 0)
\*         return EXIT_FAILURE;
\* a failure may leave the handlers of the signals before it installed
watchdog_install(w) ==
    /\ Runs(w, "watchdog") /\ pc[w] = "w_entry"
    /\ fd' = [fd EXCEPT ![w] = -1]
    /\ \/ /\ handlers' = [handlers EXCEPT ![w] = TRUE]
          /\ pc' = [pc EXCEPT ![w] = "w_access"]
          /\ UNCHANGED outcome
       \/ /\ \E b \in BOOLEAN : handlers' = [handlers EXCEPT ![w] = b]
          /\ pc' = [pc EXCEPT ![w] = "returned"]
          /\ outcome' = [outcome EXCEPT ![w] = "FAILURE"]
    /\ UNCHANGED << kind, max_ops, flag, counter, state, rc, capVars, ctxVars,
                    ret, jmp_env, fds, devHolder, extBusy, hist >>

\* if (access(dev_watchdog, R_OK | W_OK) < 0) { ... return EXIT_SUCCESS; }
\* both branches (ENOENT and any other errno) return EXIT_SUCCESS
watchdog_access(w) ==
    /\ Runs(w, "watchdog") /\ pc[w] = "w_access"
    /\ \/ /\ pc' = [pc EXCEPT ![w] = "w_fd0"]
          /\ UNCHANGED outcome
          /\ UNCHANGED hist
       \/ /\ pc' = [pc EXCEPT ![w] = "returned"]
          /\ outcome' = [outcome EXCEPT ![w] = "SUCCESS"]
          /\ hist' = [hist EXCEPT ![w].noDevice = TRUE]
    /\ UNCHANGED << kind, max_ops, flag, counter, state, rc, capVars, ctxVars,
                    wdVars >>

\* fd = 0;
watchdog_fd0(w) ==
    /\ Runs(w, "watchdog") /\ pc[w] = "w_fd0"
    /\ fd' = [fd EXCEPT ![w] = 0]
    /\ pc' = [pc EXCEPT ![w] = "w_setjmp"]
    /\ UNCHANGED << runVars, capVars, ctxVars, ret, jmp_env, handlers, fds,
                    devHolder, extBusy, hist >>

\* ret = sigsetjmp(jmp_env, 1); the direct call returns 0
watchdog_sigsetjmp(w) ==
    /\ Runs(w, "watchdog") /\ pc[w] = "w_setjmp"
    /\ jmp_env' = [jmp_env EXCEPT ![w] = "set"]
    /\ ret' = [ret EXCEPT ![w] = 0]
    /\ pc' = [pc EXCEPT ![w] = "w_run"]
    /\ UNCHANGED << runVars, capVars, ctxVars, fd, handlers, fds,
                    devHolder, extBusy, hist >>

\* if (ret) { if (fd >= 0) { ... } return EXIT_SUCCESS; }   (ret = 1)
watchdog_resume(w) ==
    /\ Runs(w, "watchdog") /\ pc[w] = "w_resume"
    /\ pc' = [pc EXCEPT ![w] = IF fd[w] >= 0 THEN "w_rmagic" ELSE "w_rreturn"]
    /\ UNCHANGED << runVars, capVars, ctxVars, wdVars, hist >>

\* stress_watchdog_magic_close();   (in the resume path)
watchdog_resume_magic(w) ==
    /\ Runs(w, "watchdog") /\ pc[w] = "w_rmagic"
    /\ hist' = [hist EXCEPT ![w] = stress_watchdog_magic_close(w, @)]
    /\ pc' = [pc EXCEPT ![w] = "w_rclose"]
    /\ UNCHANGED << runVars, capVars, ctxVars, wdVars >>

\* (void)close(fd);   (in the resume path)
watchdog_resume_close(w) ==
    /\ Runs(w, "watchdog") /\ pc[w] = "w_rclose"
    /\ CloseFd(w)
    /\ hist' = [hist EXCEPT ![w] = HistClose(w, @)]
    /\ pc' = [pc EXCEPT ![w] = "w_rreturn"]
    /\ UNCHANGED << runVars, capVars, ctxVars, fd, ret, jmp_env, handlers, extBusy >>

\* return EXIT_SUCCESS;   (in the resume path)
watchdog_resume_return(w) ==
    /\ Runs(w, "watchdog") /\ pc[w] = "w_rreturn"
    /\ outcome' = [outcome EXCEPT ![w] = "SUCCESS"]
    /\ pc' = [pc EXCEPT ![w] = "returned"]
    /\ UNCHANGED << kind, max_ops, flag, counter, state, rc, capVars, ctxVars,
                    wdVars, hist >>

\* stress_set_proc_state(args->name, STRESS_STATE_RUN);
watchdog_set_run(w) ==
    /\ Runs(w, "watchdog") /\ pc[w] = "w_run"
    /\ stress_set_proc_state(w, "RUN")
    /\ pc' = [pc EXCEPT ![w] = "w_loop"]
    /\ hist' = [hist EXCEPT ![w] = HistState(@, "RUN")]
    /\ UNCHANGED << kind, max_ops, flag, counter, rc, outcome, capVars, ctxVars,
                    wdVars >>

\* watchdog_while with the ceiling forgotten: while (keep_stressing_flag()) {
watchdog_while_flag_only(w) ==
    /\ Runs(w, "watchdog") /\ pc[w] = "w_loop"
    /\ IF keep_stressing_flag(w)
       THEN /\ pc' = [pc EXCEPT ![w] = "w_open"]
            /\ hist' = [hist EXCEPT ![w] = HistUnit(@, TRUE)]
       ELSE /\ pc' = [pc EXCEPT ![w] = "w_deinit"]
            /\ UNCHANGED hist
    /\ UNCHANGED << runVars, capVars, ctxVars, wdVars >>

\* while (keep_stressing(args)) {
watchdog_while(w) ==
    /\ Runs(w, "watchdog") /\ pc[w] = "w_loop"
    /\ IF keep_stressing(w)
       THEN /\ pc' = [pc EXCEPT ![w] = "w_open"]
            /\ hist' = [hist EXCEPT ![w] = HistUnit(@, TRUE)]
       ELSE /\ pc' = [pc EXCEPT ![w] = "w_deinit"]
            /\ UNCHANGED hist
    /\ UNCHANGED << runVars, capVars, ctxVars, wdVars >>

\* the device can be opened: no process holds it
DeviceFree == devHolder = 0 /\ ~extBusy

\* open(dev_watchdog, O_RDWR): the call itself, its result not yet stored.
\* It fails while another process holds the device.
watchdog_open(w) ==
    /\ Runs(w, "watchdog") /\ pc[w] = "w_open"
    /\ IF DeviceFree
       THEN /\ fds' = [fds EXCEPT ![w] = @ \cup { DEV_FD }]
            /\ devHolder' = w
            /\ ret' = [ret EXCEPT ![w] = DEV_FD]
            /\ hist' = [hist EXCEPT ![w].devCloses = 0, ![w].magic = FALSE]
       ELSE /\ ret' = [ret EXCEPT ![w] = -1]
            /\ UNCHANGED << fds, devHolder, hist >>
    /\ pc' = [pc EXCEPT ![w] = "w_store"]
    /\ UNCHANGED << runVars, capVars, ctxVars, fd, jmp_env, handlers, extBusy >>

\* stress_watchdog giving up when the device cannot be opened:
\* if (fd < 0) { rc = EXIT_FAILURE; break; }
watchdog_store_fd_fatal(w) ==
    /\ Runs(w, "watchdog") /\ pc[w] = "w_store"
    /\ fd' = [fd EXCEPT ![w] = ret[w]]
    /\ pc' = [pc EXCEPT ![w] = IF ret[w] < 0 THEN "w_deinit" ELSE "w_magic1"]
    /\ rc' = [rc EXCEPT ![w] = IF ret[w] < 0 THEN "FAILURE" ELSE @]
    /\ UNCHANGED << kind, max_ops, flag, counter, state, outcome, capVars, ctxVars,
                    ret, jmp_env, handlers, fds, devHolder, extBusy, hist >>

\* fd = <the result of open>; if (fd < 0) { ... } else
watchdog_store_fd(w) ==
    /\ Runs(w, "watchdog") /\ pc[w] = "w_store"
    /\ fd' = [fd EXCEPT ![w] = ret[w]]
    /\ pc' = [pc EXCEPT ![w] = IF ret[w] < 0 THEN "w_sleep" ELSE "w_magic1"]
    /\ UNCHANGED << runVars, capVars, ctxVars, ret, jmp_env, handlers, fds,
                    devHolder, extBusy, hist >>

\* (void)nanosleep(&tv, NULL); continue;
watchdog_sleep(w) ==
    /\ Runs(w, "watchdog") /\ pc[w] = "w_sleep"
    /\ pc' = [pc EXCEPT ![w] = "w_loop"]
    /\ UNCHANGED << runVars, capVars, ctxVars, wdVars, hist >>

\* stress_watchdog_magic_close();   (in the loop, after open and before close)
watchdog_magic(w) ==
    /\ Runs(w, "watchdog") /\ pc[w] \in { "w_magic1", "w_magic2" }
    /\ hist' = [hist EXCEPT ![w] = stress_watchdog_magic_close(w, @)]
    /\ pc' = [pc EXCEPT ![w] = IF pc[w] = "w_magic1" THEN "w_ioctl" ELSE "w_close"]
    /\ UNCHANGED << runVars, capVars, ctxVars, wdVars >>

\* ioctl(fd, WDIOC_KEEPALIVE, 0); ioctl(fd, WDIOC_GETTIMEOUT, ...); ...
\* the results are dropped
watchdog_ioctl(w) ==
    /\ Runs(w, "watchdog") /\ pc[w] = "w_ioctl"
    /\ pc' = [pc EXCEPT ![w] = "w_magic2"]
    /\ hist' = [hist EXCEPT ![w].magic = FALSE]
    /\ UNCHANGED << runVars, capVars, ctxVars, wdVars >>

\* ret = close(fd);
watchdog_close(w) ==
    /\ Runs(w, "watchdog") /\ pc[w] = "w_close"
    /\ CloseFd(w)
    /\ \E r \in { 0, -1 } : ret' = [ret EXCEPT ![w] = r]
    /\ hist' = [hist EXCEPT ![w] = HistClose(w, @)]
    /\ pc' = [pc EXCEPT ![w] = "w_fdneg"]
    /\ UNCHANGED << runVars, capVars, ctxVars, fd, jmp_env, handlers, extBusy >>

\* fd = -1;
watchdog_fd_reset(w) ==
    /\ Runs(w, "watchdog") /\ pc[w] = "w_fdneg"
    /\ fd' = [fd EXCEPT ![w] = -1]
    /\ pc' = [pc EXCEPT ![w] = "w_chk"]
    /\ UNCHANGED << runVars, capVars, ctxVars, ret, jmp_env, handlers, fds,
                    devHolder, extBusy, hist >>

\* if (ret < 0) { pr_fail(...); rc = EXIT_FAILURE; break; }
watchdog_check_close(w) ==
    /\ Runs(w, "watchdog") /\ pc[w] = "w_chk"
    /\ IF ret[w] < 0
       THEN /\ rc' = [rc EXCEPT ![w] = "FAILURE"]
            /\ hist' = [hist EXCEPT ![w].pr_fail = TRUE]
            /\ pc' = [pc EXCEPT ![w] = "w_deinit"]
       ELSE /\ pc' = [pc EXCEPT ![w] = "w_inc"]
            /\ UNCHANGED << rc, hist >>
    /\ UNCHANGED << kind, max_ops, flag, counter, state, outcome, capVars,
                    ctxVars, wdVars >>

\* stress_watchdog counting in the slot of the first instance instead of in
\* its own
watchdog_inc_first_slot(w) ==
    /\ Runs(w, "watchdog") /\ pc[w] = "w_inc"
    /\ inc_counter(1)
    /\ pc' = [pc EXCEPT ![w] = "w_loop"]
    /\ hist' = [hist EXCEPT ![w] = HistInc(@, flag[w])]
    /\ UNCHANGED << kind, max_ops, flag, state, rc, outcome, capVars, ctxVars,
                    wdVars >>

\* (void)shim_sched_yield(); inc_counter(args); }
watchdog_inc(w) ==
    /\ Runs(w, "watchdog") /\ pc[w] = "w_inc"
    /\ inc_counter(w)
    /\ pc' = [pc EXCEPT ![w] = "w_loop"]
    /\ hist' = [hist EXCEPT ![w] = HistInc(@, flag[w])]
    /\ UNCHANGED << kind, max_ops, flag, state, rc, outcome, capVars, ctxVars,
                    wdVars >>

\* stress_set_proc_state(args->name, STRESS_STATE_DEINIT);
watchdog_deinit(w) ==
    /\ Runs(w, "watchdog") /\ pc[w] = "w_deinit"
    /\ stress_set_proc_state(w, "DEINIT")
    /\ pc' = [pc EXCEPT ![w] = "w_return"]
    /\ hist' = [hist EXCEPT ![w] = HistState(@, "DEINIT")]
    /\ UNCHANGED << kind, max_ops, flag, counter, rc, outcome, capVars, ctxVars,
                    wdVars >>

\* return rc;
watchdog_return(w) ==
    /\ Runs(w, "watchdog") /\ pc[w] = "w_return"
    /\ outcome' = [outcome EXCEPT ![w] = rc[w]]
    /\ pc' = [pc EXCEPT ![w] = "returned"]
    /\ UNCHANGED << kind, max_ops, flag, counter, state, rc, capVars, ctxVars,
                    wdVars, hist >>

\* the resume point is established and stress_watchdog, whose frame it
\* lies in, has not returned
JmpValid(w) == jmp_env[w] = "set" /\ pc[w] # "returned"

\* where siglongjmp(jmp_env, 1) takes the worker: to the resume point, or,
\* when there is no valid one (undefined behaviour), to a crash or to
\* whatever jmp_env holds
JumpTargets(w) == IF JmpValid(w) THEN { "w_resume" } ELSE { "crashed", "w_resume" }

\* stress_watchdog_handler giving up when its write fails:
\* if (write(fd, "V", 1) < 0) return;
stress_watchdog_handler_gives_up(w) ==
    /\ Runs(w, "watchdog") /\ handlers[w] /\ pc[w] # "crashed"
    /\ \E r \in WriteResults(w) :
          /\ hist' = [hist EXCEPT ![w] =
                         [stress_watchdog_magic_close(w, @)
                             EXCEPT !.wres = r,
                                    !.caught = @ \/ JmpValid(w),
                                    !.badJump = @ \/ (~JmpValid(w) /\ r # "fail")]]
          /\ IF r = "fail"
             THEN UNCHANGED << flag, pc, ret >>
             ELSE /\ flag' = [flag EXCEPT ![w] = FALSE]
                  /\ ret' = [ret EXCEPT ![w] = 1]
                  /\ \E p \in JumpTargets(w) : pc' = [pc EXCEPT ![w] = p]
    /\ UNCHANGED << kind, max_ops, counter, state, rc, outcome, capVars, ctxVars,
                    fd, jmp_env, handlers, fds, devHolder, extBusy >>

\* stress_watchdog_handler(signum), run for a signal of sigs[] delivered to
\* the worker: stress_watchdog_magic_close(); keep_stressing_set_flag(false);
\* siglongjmp(jmp_env, 1);   (sigsetjmp returns again, now 1, into ret)
stress_watchdog_handler(w) ==
    /\ Runs(w, "watchdog") /\ handlers[w] /\ pc[w] # "crashed"
    /\ \E r \in WriteResults(w) :
          hist' = [hist EXCEPT ![w] =
                      [stress_watchdog_magic_close(w, @)
                          EXCEPT !.wres = r,
                                 !.caught = @ \/ JmpValid(w),
                                 !.badJump = @ \/ ~JmpValid(w)]]
    /\ flag' = [flag EXCEPT ![w] = FALSE]
    /\ ret' = [ret EXCEPT ![w] = 1]
    /\ \E p \in JumpTargets(w) : pc' = [pc EXCEPT ![w] = p]
    /\ UNCHANGED << kind, max_ops, counter, state, rc, outcome, capVars, ctxVars,
                    fd, jmp_env, handlers, fds, devHolder, extBusy >>

\* the path from the resume point, taken after a siglongjmp
watchdog_resume_path(w) ==
    \/ watchdog_resume(w)
    \/ watchdog_resume_magic(w)
    \/ watchdog_resume_close(w)
    \/ watchdog_resume_return(w)

\* the path of a direct call
watchdog_direct_path(w) ==
    \/ watchdog_install(w)
    \/ watchdog_access(w)
    \/ watchdog_fd0(w)
    \/ watchdog_sigsetjmp(w)
    \/ watchdog_set_run(w)
    \/ watchdog_while(w)
    \/ watchdog_open(w)
    \/ watchdog_store_fd(w)
    \/ watchdog_sleep(w)
    \/ watchdog_magic(w)
    \/ watchdog_ioctl(w)
    \/ watchdog_close(w)
    \/ watchdog_fd_reset(w)
    \/ watchdog_check_close(w)
    \/ watchdog_inc(w)
    \/ watchdog_deinit(w)
    \/ watchdog_return(w)

stress_watchdog(w) == watchdog_direct_path(w) \/ watchdog_resume_path(w)

(***************************************************************************)
(* Cooperative cancellation: a stop request (the default signal handler of *)
(* the core, keep_stressing_set_flag(false)) clears the worker's flag.     *)
(***************************************************************************)
StopRequest(w) ==
    /\ Live(w) /\ flag[w]
    /\ flag' = [flag EXCEPT ![w] = FALSE]
    /\ UNCHANGED << pc, kind, max_ops, counter, state, rc, outcome,
                    capVars, ctxVars, wdVars, hist >>

(***************************************************************************)
(* Initial states and specifications.                                      *)
(***************************************************************************)
EntryPc(k) ==
    CASE k = "cap" -> "c_run"
      [] k = "context" -> "x_mmap"
      [] k = "watchdog" -> "w_entry"
      [] OTHER -> "returned"

InitRc(k) == IF k = "context" THEN "FAILURE" ELSE "SUCCESS"

InitWith(kinds, ops, busy) ==
    /\ kind = kinds
    /\ max_ops = ops
    /\ pc = [w \in DOMAIN kinds |-> EntryPc(kinds[w])]
    /\ flag = [w \in Workers |-> TRUE]
    /\ counter = [w \in Workers |-> 0]
    /\ state = [w \in Workers |-> "INIT"]
    /\ rc = [w \in DOMAIN kinds |-> InitRc(kinds[w])]
    /\ outcome = [w \in Workers |-> "none"]
    /\ dir = [w \in Workers |-> 0]
    /\ context_counter = [w \in Workers |-> 0]
    /\ stress_max_ops = [w \in Workers |-> U64FromNat(0)]
    /\ cur = [w \in Workers |-> 0]
    /\ tpos = [w \in Workers |-> [i \in Contexts |-> "unmade"]]
    /\ canary = [w \in Workers |-> {}]
    /\ fd = [w \in Workers |-> 0]
    /\ ret = [w \in Workers |-> 0]
    /\ jmp_env = [w \in Workers |-> "unset"]
    /\ handlers = [w \in Workers |-> FALSE]
    /\ fds = [w \in Workers |-> { 0 }]
    /\ devHolder = 0
    /\ extBusy = busy
    /\ hist = [w \in Workers |-> HistInit]

\* one worker, of any stressor, with any ceiling
Init ==
    \E k \in { "cap", "context", "watchdog" }, m \in MaxOpsValues, busy \in BOOLEAN :
        /\ busy => k = "watchdog"
        /\ InitWith([w \in { 1 } |-> k], [w \in { 1 } |-> m], busy)

Next ==
    \E w \in WorkerIds :
        \/ stress_cap(w)
        \/ stress_context(w)
        \/ stress_watchdog(w)
        \/ stress_watchdog_handler(w)
        \/ StopRequest(w)

Spec == Init /\ [][Next]_vars

\* a step of a worker's own code
Step == \E w \in WorkerIds : stress_cap(w) \/ stress_context(w) \/ stress_watchdog(w)

\* The scheduler lets every worker that can run do so again and again.
\* Stop requests and signals come from outside and need not come at all.
FairSpec == Spec /\ WF_vars(Step)

(***************************************************************************)
(* Several stress_watchdog workers contending for the one device, with no  *)
(* ceiling, no stop request and no signal: their flags stay set.           *)
(***************************************************************************)
Instances == 1 .. NumInstances

InitContend ==
    InitWith([w \in Instances |-> "watchdog"],
             [w \in Instances |-> U64FromNat(0)], FALSE)

NextContend == \E w \in WorkerIds : watchdog_direct_path(w)

\* every worker is a process of its own, which the scheduler lets run again
\* and again; nothing orders the workers' attempts to open the device
FairContend ==
    /\ InitContend /\ [][NextContend]_vars
    /\ \A w \in WorkerIds : WF_vars(watchdog_direct_path(w))

(***************************************************************************)
(* Sibling workers: several instances of one stressor and instances of     *)
(* different stressors in one run, each a process of its own with its own  *)
(* args (metrics slot) and its own copy of the file-scope variables.       *)
(* The ceilings are one operation, none for the stress_cap beside the      *)
(* stress_context, and for stress_context one that its scaling wraps to 8  *)
(* context switches.  Signals and stop requests come to any of the workers *)
(* at any time.                                                            *)
(***************************************************************************)
SiblingRuns ==
    { [ kinds |-> << "watchdog", "watchdog" >>,
        ops   |-> << U64FromNat(1), U64FromNat(1) >> ],
      [ kinds |-> << "cap", "cap", "watchdog" >>,
        ops   |-> << U64FromNat(1), U64FromNat(1), U64FromNat(1) >> ],
      [ kinds |-> << "context", "cap" >>,
        ops   |-> << SHORT_OPS, U64FromNat(0) >> ] }

InitSiblings == \E r \in SiblingRuns : InitWith(r.kinds, r.ops, FALSE)

SpecSiblings == InitSiblings /\ [][Next]_vars

\* a step of worker v: of its code, of its signal handler, or a stop request
\* to it
WorkerStep(v) ==
    \/ stress_cap(v) \/ stress_context(v) \/ stress_watchdog(v)
    \/ stress_watchdog_handler(v) \/ StopRequest(v)

(***************************************************************************)
(* Properties.                                                             *)
(***************************************************************************)
\* the worker was started with a ceiling: max_ops > 0
Ceiling(w) == ~U64IsZero(max_ops[w])

\* the worker has returned with its flag never cleared: no stop request and
\* no handled signal came (both clear the flag)
ReturnedUnstopped(w) == pc[w] = "returned" /\ flag[w]

\* the worker has left its loop through the keep-running predicate: it went
\* through DEINIT and returns SUCCESS, which no set-up failure and no failed
\* close() does
RanToCeiling(w) ==
    ReturnedUnstopped(w) /\ state[w] = "DEINIT" /\ outcome[w] = "SUCCESS"

\* C1 as stated: with a ceiling C > 0 the counter never exceeds C, and a
\* worker that returns with its flag never cleared and no signal delivered
\* has a counter of exactly C.
C1_ExactWheneverReturned ==
    \A w \in Workers :
        Ceiling(w) =>
            /\ U64NatLe(counter[w], max_ops[w])
            /\ ReturnedUnstopped(w) => U64NatEq(counter[w], max_ops[w])

\* C1 amended: with a ceiling C > 0 the counter never exceeds C; a worker
\* that returns unstopped after leaving its loop through the predicate has
\* a counter of exactly C for stress_cap and stress_watchdog, and for
\* stress_context a context_counter of exactly C * 1000 modulo 2^64 and a
\* counter of context_counter / 1000, which is C when C * 1000 does not wrap.
C1_CeilingNeverExceededAndMet ==
    \A w \in Workers :
        Ceiling(w) =>
            /\ U64NatLe(counter[w], max_ops[w])
            /\ RanToCeiling(w) =>
                  IF kind[w] = "context"
                  THEN /\ U64NatEq(context_counter[w],
                                   U64MulSmall(max_ops[w], OPS_SCALE))
                       /\ counter[w] = context_counter[w] \div OPS_SCALE
                       /\ U64Small(max_ops[w]) => U64NatEq(counter[w], max_ops[w])
                  ELSE U64NatEq(counter[w], max_ops[w])

\* a stress_context worker ran until it met its ceiling
C1_Witness ==
    \E w \in Workers :
        /\ kind[w] = "context" /\ Ceiling(w) /\ RanToCeiling(w)
        /\ counter[w] >= 1 /\ U64NatEq(counter[w], max_ops[w])

\* C2 as stated, for the ceilings the model follows to their end: under fair
\* scheduling every worker started with a ceiling C > 0 eventually returns,
\* even if its flag is never cleared (a run whose flag is cleared, by a stop
\* request or a handled signal, is not one the claim speaks of).
C2_EveryCeilingRunReturns ==
    <>(\A w \in Workers :
          (Ceiling(w) /\ U64Small(max_ops[w])) => (pc[w] = "returned" \/ ~flag[w]))

\* C3 as stated: RUN and DEINIT are each set at most once, DEINIT only after
\* RUN, and a worker that has set RUN returns only after it has set DEINIT.
C3_DeinitBeforeReturn ==
    \A w \in Workers :
        /\ hist[w].runs <= 1 /\ hist[w].deinits <= 1
        /\ hist[w].deinits <= hist[w].runs
        /\ (pc[w] = "returned" /\ hist[w].runs > 0) => state[w] = "DEINIT"

\* C4 as stated: siglongjmp(jmp_env) is never executed before sigsetjmp has
\* run or after stress_watchdog has returned.
C4_JumpOnlyToValidResumePoint ==
    \A w \in Workers : ~hist[w].badJump

\* C5 as stated: whatever signals come (on runs whose jumps all had a valid
\* resume point), a device descriptor is closed at most once per open() and
\* is never written to after it was closed.
C5_CleanupIdempotent ==
    \A w \in Workers :
        ~hist[w].badJump => (hist[w].devCloses <= 1 /\ ~hist[w].wac)

\* the statements of the resume path
ResumePcs == { "w_resume", "w_rmagic", "w_rclose", "w_rreturn" }

\* C6: once a handled signal has been delivered with the resume point valid,
\* the flag is clear and the worker is on the resume path or has returned,
\* whatever the handler's write returned, and what it returns is SUCCESS.
C6_InterruptionEndsInSuccess ==
    \A w \in Workers :
        (hist[w].caught /\ ~hist[w].badJump) =>
            /\ ~flag[w]
            /\ pc[w] \in ResumePcs \cup { "returned" }
            /\ pc[w] = "returned" => outcome[w] = "SUCCESS"

\* a worker was interrupted in its loop, the handler's write failed, and
\* the worker has returned
C6_Witness ==
    \E w \in Workers :
        /\ hist[w].caught /\ ~hist[w].badJump /\ hist[w].wres = "fail"
        /\ state[w] = "RUN" /\ pc[w] = "returned"

\* C8 as stated: a unit of work whose increment is made was started in a
\* state where the keep-running predicate held.
C8_UnitsStartUnderPredicate ==
    [][\A w \in WorkerIds :
          (stress_capgetset_pid(w) \/ stress_thread_body(w) \/ watchdog_inc(w))
              => hist[w].unitPred]_vars

\* C9 as stated: with no forced unwind, at most one increment of the counter
\* (of context_counter) is made once the flag is false.
C9_AtMostOneUnitAfterStop ==
    \A w \in Workers :
        (~hist[w].caught /\ ~hist[w].badJump) => hist[w].stopIncs <= 1

\* C10 as stated: a stress_watchdog worker that finds the device missing or
\* inaccessible returns NO_RESOURCE, never having entered RUN nor counted.
C10_NoDeviceIsNoResource ==
    \A w \in Workers :
        (hist[w].noDevice /\ ~hist[w].badJump /\ pc[w] = "returned") =>
            /\ outcome[w] = "NO_RESOURCE"
            /\ hist[w].runs = 0
            /\ counter[w] = 0

\* some worker's set-up or close() failed
SomeFailure ==
    \E w \in Workers :
        hist[w].noDevice \/ hist[w].pr_fail \/ outcome[w] = "FAILURE"

\* C7 as stated: under fair scheduling every one of the contending workers
\* eventually completes an open/close cycle and increments its counter
\* (unless the device is missing or a set-up step or a close() fails).
C7_NoWorkerStarves ==
    <>(SomeFailure \/ \A w \in Workers : counter[w] >= 1)

\* C11 as stated: a stress_context worker that has returned after the check
\* found a canary differing from its recorded copy has the outcome FAILURE.
C11_ClobberedCanaryIsFailure ==
    \A w \in Workers :
        (kind[w] = "context" /\ pc[w] = "returned" /\ canary[w] # {})
            => outcome[w] = "FAILURE"

\* the counter of worker w changes only by an increment of one, made by
\* stress_capgetset_pid or at the end of stress_watchdog's loop body
IncrementsByOne(w) ==
    counter'[w] # counter[w] =>
        /\ counter'[w] = counter[w] + 1
        /\ pc[w] \in { "c_unit1", "c_unit2", "c_unit3", "c_unit4", "w_inc" }

\* the counter of worker w changes only by the one set_counter of
\* stress_context, which replaces the initial 0 by a value not below it
WrittenOnce(w) ==
    counter'[w] # counter[w] =>
        /\ pc[w] = "x_setcounter" /\ counter[w] = 0
        /\ counter'[w] = context_counter[w] \div OPS_SCALE
        /\ counter'[w] >= counter[w]

\* C12: every step, of the worker, of a signal handler or of a stop request,
\* leaves the worker's counter unchanged or raises it: by one in stress_cap
\* and stress_watchdog, by the single write of stress_context.
C12_CounterNeverDecreases ==
    [][\A w \in Workers :
          /\ counter'[w] >= counter[w]
          /\ IF kind[w] = "context" THEN WrittenOnce(w) ELSE IncrementsByOne(w)]_vars

\* a stress_watchdog worker that counted was interrupted by a signal, and a
\* stress_context worker has written a counter above 0
C12_Witness ==
    \E w \in Workers :
        \/ kind[w] = "watchdog" /\ hist[w].caught /\ counter[w] >= 2
        \/ kind[w] = "context" /\ pc[w] = "x_canary" /\ counter[w] >= 1

\* the metrics slot of worker w (its counter, run state and outcome) is
\* left as it is
SlotUnchanged(w) ==
    /\ counter'[w] = counter[w]
    /\ state'[w] = state[w]
    /\ outcome'[w] = outcome[w]
    /\ max_ops'[w] = max_ops[w]

\* the counter with which a worker that ran to its ceiling returns: the
\* ceiling, and for stress_context the thousandth of the scaled ceiling
FinalCounter(w) ==
    IF kind[w] = "context"
    THEN /\ U64NatEq(context_counter[w], stress_max_ops[w])
         /\ counter[w] = context_counter[w] \div OPS_SCALE
    ELSE U64NatEq(counter[w], max_ops[w])

\* C13: a step that changes the slot of a worker is a step of that worker
\* and of no other (every step of a worker leaves the slots of all other
\* workers unchanged), and a worker that runs to its ceiling returns with the counter
\* of that ceiling whatever became of its siblings.
C13_SiblingSlotsUntouched ==
    /\ [][\A w \in Workers :
             SlotUnchanged(w)
                \/ /\ WorkerStep(w)
                   /\ \A v \in Workers \ { w } : pc'[v] = pc[v] /\ flag'[v] = flag[v]]_vars
    /\ [](\A w \in Workers : (Ceiling(w) /\ RanToCeiling(w)) => FinalCounter(w))

\* a worker ran to its ceiling beside a sibling that crashed, and beside a
\* sibling that was cancelled
C13_Witness ==
    \E w \in Workers, v \in Workers :
        /\ w # v /\ RanToCeiling(w) /\ counter[w] = 1
        /\ pc[v] = "crashed" \/ (pc[v] = "returned" /\ ~flag[v] /\ counter[v] = 0)

\* stress_watchdog has returned FAILURE because a close() of the opened
\* device failed
FailedClose(w) == hist[w].pr_fail /\ rc[w] = "FAILURE"

\* stress_watchdog has returned FAILURE from the installation of its signal
\* handlers, before anything else was done
FailedInstall(w) ==
    /\ state[w] = "INIT" /\ jmp_env[w] = "unset" /\ counter[w] = 0
    /\ DEV_FD \notin fds[w] /\ ~hist[w].pr_fail

\* worker w is between a failed open() and its next evaluation of the
\* keep-running predicate
AfterFailedOpen(w) ==
    \/ pc[w] = "w_store" /\ ret[w] < 0
    \/ pc[w] = "w_sleep"

\* a step of the code of stress_watchdog itself, not a jump of its handler
OwnWatchdogStep(w) ==
    pc'[w] # pc[w] /\ pc'[w] \notin ResumePcs \cup { "crashed" }

\* C14 as stated: stress_watchdog returns FAILURE only after a failed close()
\* of an opened device.
C14_OnlyFailedCloseIsFailure ==
    \A w \in Workers :
        (kind[w] = "watchdog" /\ outcome[w] = "FAILURE") => FailedClose(w)

\* C14 amended: a failed open() leaves rc, the outcome and the counter as
\* they are, the worker sleeps and goes back to the keep-running predicate,
\* every open() follows an evaluation of the predicate that held, and
\* stress_watchdog returns FAILURE only after a failed close() of an opened
\* device or a failed installation of its signal handlers.
C14_FailedOpenNotFatal ==
    /\ [][\A w \in Workers :
             kind[w] = "watchdog" =>
                /\ (pc[w] = "w_open" \/ AfterFailedOpen(w)) =>
                      /\ rc'[w] = rc[w] /\ counter'[w] = counter[w]
                      /\ outcome'[w] = outcome[w]
                /\ (AfterFailedOpen(w) /\ OwnWatchdogStep(w)) =>
                      pc'[w] = (IF pc[w] = "w_store" THEN "w_sleep" ELSE "w_loop")
                /\ (pc'[w] = "w_open" /\ pc[w] # "w_open") =>
                      pc[w] = "w_loop" /\ keep_stressing(w)]_vars
    /\ [](\A w \in Workers :
             (kind[w] = "watchdog" /\ outcome[w] = "FAILURE") =>
                 FailedClose(w) \/ FailedInstall(w))

\* an open() of the busy device has failed and the worker sleeps before it
\* retries, its rc and counter as they were
C14_Witness ==
    \E w \in Workers :
        /\ kind[w] = "watchdog" /\ pc[w] = "w_sleep" /\ fd[w] < 0
        /\ rc[w] = "SUCCESS" /\ counter[w] = 0 /\ outcome[w] = "none"

\* C15 as stated: once the resume point is established, fd >= 0 only while
\* fd is the descriptor of the watchdog device that the worker opened and
\* still holds, and the emergency cleanup never closes another descriptor
\* (descriptor 0 stays open).
C15_CleanupOnlyOnDeviceDescriptor ==
    \A w \in Workers :
        (kind[w] = "watchdog" /\ jmp_env[w] = "set" /\ ~hist[w].badJump) =>
            /\ fd[w] >= 0 => (fd[w] = DEV_FD /\ DEV_FD \in fds[w])
            /\ 0 \in fds[w]

\* worker w closes the open descriptor of the watchdog device in this step
ClosesDevice(w) == DEV_FD \in fds[w] /\ DEV_FD \notin fds'[w]

\* every close() of the open device descriptor follows a write of "V" to it
\* with no ioctl in between
C16_MagicWriteBeforeClose ==
    [][\A w \in Workers : ClosesDevice(w) => hist[w].magic]_vars

\* C16 as stated: every close() of the open device descriptor follows a
\* write of "V" to it with no ioctl in between, and a worker that returns
\* (on runs whose jumps all had a valid resume point) has closed every
\* descriptor of the device that it opened.
C16_NeverReleasedArmed ==
    /\ C16_MagicWriteBeforeClose
    /\ [](\A w \in Workers :
             (kind[w] = "watchdog" /\ pc[w] = "returned" /\ ~hist[w].badJump)
                 => DEV_FD \notin fds[w])

\* the context after context i in the order 1, 2, 3, 1, ...
CyclicSuccessor(i) == IF i = STRESS_CONTEXTS THEN 1 ELSE i + 1

\* control of worker w has come back from a context to uctx_main
BackInMain(w) == \E i \in Contexts : tpos[w][i] = "exited"

C18_ScaledCeilingKeepsMeaning ==
    \A w \in Workers :
        (kind[w] = "context" /\ pc[w] \notin { "x_mmap", "x_init" }
            /\ outcome[w] # "NO_RESOURCE") =>
            /\ U64IsZero(stress_max_ops[w]) <=> U64IsZero(max_ops[w])
            /\ Ceiling(w) => U64NatLe(counter[w], max_ops[w])
====
